---- MODULE Spec2Model ----
(***************************************************************************)
(* A model of the article claim analyzer (src/article_analyzer.py) and of  *)
(* the roll-ups its callers compute (src/app.py).                          *)
(*                                                                         *)
(* Texts are sequences of lexemes: a lexeme is one punctuation character,  *)
(* one digit, one whitespace character, or a run of characters that the    *)
(* code only ever handles as a whole (a word, the code fence, the json tag *)
(* after it, the two-character escape \").  Every slice the code takes by  *)
(* character count falls on a lexeme boundary.                             *)
(*                                                                         *)
(* Probabilities are floats in the code; here they are exact numbers of    *)
(* tenths (One = 1.0), and microlies are exact integers.                   *)
(***************************************************************************)
EXTENDS Integers, Sequences, FiniteSets, TLC

\* ------------------------------------------------------------------ bounds

\* Longest free-form response text given to the parser, in lexemes.
MaxProseLen == 3

\* Most sentences an article is segmented into.
MaxSegments == 3

\* Largest skip_sentences a caller passes.
MaxSkip == 2

\* Largest max_sentences and max_claims a caller passes.
MaxLimit == 2

\* Most claims one extraction call returns.
MaxExtract == 2

\* Most oracle calls of one run that the model follows.
MaxCalls == 6

\* Most tokens (words and runs of whitespace) of a text that is segmented.
MaxTokens == 4

\* ------------------------------------------------------- numbers and floats

\* 1.0, in tenths: the unit of every probability of the model.
One == 10

Min(a, b) == IF a <= b THEN a ELSE b

Max(a, b) == IF a >= b THEN a ELSE b

\* The clamp with min and max exchanged.
ClampSwapped(prob) == Min(0, Max(One, prob))

\* No clamp at all.
Unclamped(prob) == prob

\* max(0.0, min(1.0, prob))
Clamp(prob) == Max(0, Min(One, prob))

\* ------------------------------------------------------------------ lexemes

LBRACE == "{"
RBRACE == "}"
LBRACKET == "["
RBRACKET == "]"
QUOTE == "\""
ESCQUOTE == "\\\""
COLON == ":"
COMMA == ","
DOT == "."
MINUS == "-"
SP == " "
NL == "\n"
\* The code fence: three backquotes, which a TLA+ string cannot hold.
FENCE == "<fence>"
JSONTAG == "json"
NULL == "null"

Whitespace == {SP, NL}

Digits == {"0", "1", "2", "3", "4", "5", "6", "7", "8", "9"}

DigitVal(d) ==
    CASE d = "0" -> 0 [] d = "1" -> 1 [] d = "2" -> 2 [] d = "3" -> 3
      [] d = "4" -> 4 [] d = "5" -> 5 [] d = "6" -> 6 [] d = "7" -> 7
      [] d = "8" -> 8 [] d = "9" -> 9

IsDigitAt(t, i) == i >= 1 /\ i <= Len(t) /\ t[i] \in Digits

IsAt(t, i, c) == i >= 1 /\ i <= Len(t) /\ t[i] = c

\* The last index of the run of digits that starts at i (i - 1: no digit at i).
RECURSIVE DigitRunEnd(_, _)
DigitRunEnd(t, i) == IF IsDigitAt(t, i) THEN DigitRunEnd(t, i + 1) ELSE i - 1

\* The integer a sequence of digits writes (0 for none).
RECURSIVE IntOf(_)
IntOf(ds) ==
    IF ds = <<>> THEN 0
    ELSE IntOf(SubSeq(ds, 1, Len(ds) - 1)) * 10 + DigitVal(ds[Len(ds)])

\* The value, in tenths, of integer digits and fraction digits.
TenthsOf(intDigits, fracDigits) ==
    IntOf(intDigits) * One + (IF fracDigits = <<>> THEN 0 ELSE DigitVal(fracDigits[1]))

\* ------------------------------------------------------------ str methods

\* str.strip()
RECURSIVE LStrip(_)
LStrip(t) == IF t # <<>> /\ t[1] \in Whitespace THEN LStrip(Tail(t)) ELSE t

RECURSIVE RStrip(_)
RStrip(t) ==
    IF t # <<>> /\ t[Len(t)] \in Whitespace THEN RStrip(SubSeq(t, 1, Len(t) - 1)) ELSE t

Strip(t) == RStrip(LStrip(t))

\* seq[a:]
PySliceFrom(s, a) ==
    IF a >= 0 THEN SubSeq(s, a + 1, Len(s))
    ELSE SubSeq(s, Max(Len(s) + a, 0) + 1, Len(s))

\* seq[:b]
PySliceTo(s, b) ==
    IF b >= 0 THEN SubSeq(s, 1, Min(b, Len(s)))
    ELSE SubSeq(s, 1, Max(Len(s) + b, 0))

\* text.startswith(fence + 'json'), text.startswith(fence), text.endswith(fence)
StartsWithFenceJson(t) == Len(t) >= 2 /\ t[1] = FENCE /\ t[2] = JSONTAG

StartsWithFence(t) == Len(t) >= 1 /\ t[1] = FENCE

EndsWithFence(t) == Len(t) >= 1 /\ t[Len(t)] = FENCE

\* ------------------------------------------------------------ json.loads

\* A decoded JSON value: t is its type, n a number's value in tenths, s a
\* string's characters, m an object's <<key, value>> pairs in source order or a
\* list's elements.
JNum(n) == [t |-> "num", n |-> n, s |-> <<>>, m |-> <<>>]

JStr(s) == [t |-> "str", n |-> 0, s |-> s, m |-> <<>>]

JNull == [t |-> "null", n |-> 0, s |-> <<>>, m |-> <<>>]

JList(items) == [t |-> "list", n |-> 0, s |-> <<>>, m |-> items]

JObj(members) == [t |-> "obj", n |-> 0, s |-> <<>>, m |-> members]

\* json.JSONDecodeError
DecodeError == [ok |-> FALSE, v |-> JNull, next |-> 0]

Decoded(v, next) == [ok |-> TRUE, v |-> v, next |-> next]

\* The first index at or after p that holds no whitespace.
RECURSIVE SkipWs(_, _)
SkipWs(t, p) == IF p <= Len(t) /\ t[p] \in Whitespace THEN SkipWs(t, p + 1) ELSE p

\* The first index at or after p that holds c (0: none).
RECURSIVE IndexFrom(_, _, _)
IndexFrom(t, p, cs) ==
    IF p > Len(t) THEN 0 ELSE IF t[p] \in cs THEN p ELSE IndexFrom(t, p + 1, cs)

\* The characters a string literal's body stands for.
RECURSIVE Unescape(_)
Unescape(body) ==
    IF body = <<>> THEN <<>>
    ELSE <<IF body[1] = ESCQUOTE THEN QUOTE ELSE body[1]>> \o Unescape(Tail(body))

\* A string literal whose opening quote is at p.
ParseString(t, p) ==
    LET q == IndexFrom(t, p + 1, {QUOTE})
    IN  IF q = 0 THEN DecodeError
        ELSE LET body == SubSeq(t, p + 1, q - 1)
             IN  IF \E k \in 1..Len(body) : body[k] = NL THEN DecodeError
                 ELSE Decoded(JStr(Unescape(body)), q + 1)

\* A number at p: -?(0|[1-9]\d*)(\.\d+)?
ParseNumber(t, p) ==
    LET neg == IsAt(t, p, MINUS)
        s == IF neg THEN p + 1 ELSE p
    IN  IF ~IsDigitAt(t, s) THEN DecodeError
        ELSE LET intEnd == IF t[s] = "0" THEN s ELSE DigitRunEnd(t, s)
                 hasFrac == IsAt(t, intEnd + 1, DOT) /\ IsDigitAt(t, intEnd + 2)
                 fracEnd == IF hasFrac THEN DigitRunEnd(t, intEnd + 2) ELSE intEnd
                 mag == TenthsOf(SubSeq(t, s, intEnd),
                                 IF hasFrac THEN SubSeq(t, intEnd + 2, fracEnd) ELSE <<>>)
             IN  Decoded(JNum(IF neg THEN 0 - mag ELSE mag), fracEnd + 1)

RECURSIVE ParseValue(_, _)
RECURSIVE ParseMembers(_, _, _)
RECURSIVE ParseElements(_, _, _)

\* The members of an object from the key whose opening quote is at p.
ParseMembers(t, p, acc) ==
    LET k == ParseString(t, p)
    IN  IF ~k.ok THEN DecodeError
        ELSE LET c == SkipWs(t, k.next)
             IN  IF ~IsAt(t, c, COLON) THEN DecodeError
                 ELSE LET val == ParseValue(t, SkipWs(t, c + 1))
                      IN  IF ~val.ok THEN DecodeError
                          ELSE LET e == SkipWs(t, val.next)
                                   acc2 == Append(acc, <<k.v.s, val.v>>)
                               IN  IF IsAt(t, e, RBRACE) THEN Decoded(JObj(acc2), e + 1)
                                   ELSE IF ~IsAt(t, e, COMMA) THEN DecodeError
                                   ELSE LET q == SkipWs(t, e + 1)
                                        IN  IF IsAt(t, q, QUOTE)
                                            THEN ParseMembers(t, q, acc2)
                                            ELSE DecodeError

\* The elements of a list from the value at p.
ParseElements(t, p, acc) ==
    LET val == ParseValue(t, p)
    IN  IF ~val.ok THEN DecodeError
        ELSE LET e == SkipWs(t, val.next)
                 acc2 == Append(acc, val.v)
             IN  IF IsAt(t, e, RBRACKET) THEN Decoded(JList(acc2), e + 1)
                 ELSE IF ~IsAt(t, e, COMMA) THEN DecodeError
                 ELSE ParseElements(t, SkipWs(t, e + 1), acc2)

\* The JSON value that starts at p.
ParseValue(t, p) ==
    IF p > Len(t) THEN DecodeError
    ELSE IF t[p] = QUOTE THEN ParseString(t, p)
    ELSE IF t[p] = LBRACE THEN
        LET q == SkipWs(t, p + 1)
        IN  IF IsAt(t, q, RBRACE) THEN Decoded(JObj(<<>>), q + 1)
            ELSE IF IsAt(t, q, QUOTE) THEN ParseMembers(t, q, <<>>)
            ELSE DecodeError
    ELSE IF t[p] = LBRACKET THEN
        LET q == SkipWs(t, p + 1)
        IN  IF IsAt(t, q, RBRACKET) THEN Decoded(JList(<<>>), q + 1)
            ELSE ParseElements(t, q, <<>>)
    ELSE IF t[p] = NULL THEN Decoded(JNull, p + 1)
    ELSE IF t[p] = MINUS \/ t[p] \in Digits THEN ParseNumber(t, p)
    ELSE DecodeError

\* json.loads(text): one value, with whitespace around it and nothing else.
JsonLoads(t) ==
    LET r == ParseValue(t, SkipWs(t, 1))
    IN  IF r.ok /\ SkipWs(t, r.next) = Len(t) + 1 THEN r ELSE DecodeError

\* dict.get(key, default): the last member of that key wins.
RECURSIVE DictGet(_, _, _)
DictGet(members, key, default) ==
    IF members = <<>> THEN default
    ELSE LET last == members[Len(members)]
         IN  IF last[1] = key THEN last[2]
             ELSE DictGet(SubSeq(members, 1, Len(members) - 1), key, default)

\* float(str): an optional sign, then digits with at most one point among them.
FloatOfStr(s) ==
    LET u == Strip(s)
        neg == IsAt(u, 1, MINUS)
        body == IF neg THEN Tail(u) ELSE u
        dot == IndexFrom(body, 1, {DOT})
        intD == IF dot = 0 THEN body ELSE SubSeq(body, 1, dot - 1)
        fracD == IF dot = 0 THEN <<>> ELSE SubSeq(body, dot + 1, Len(body))
        ok == /\ Len(intD) + Len(fracD) >= 1
              /\ \A k \in 1..Len(intD) : intD[k] \in Digits
              /\ \A k \in 1..Len(fracD) : fracD[k] \in Digits
        mag == IF ok THEN TenthsOf(intD, fracD) ELSE 0
    IN  [ok |-> ok, n |-> IF neg THEN 0 - mag ELSE mag]

\* float(x) of a decoded JSON value: exc is "" when it returns.
PyFloat(v) ==
    IF v.t = "num" THEN [exc |-> "", n |-> v.n]
    ELSE IF v.t = "str" THEN
        LET f == FloatOfStr(v.s)
        IN  [exc |-> IF f.ok THEN "" ELSE "ValueError", n |-> f.n]
    ELSE [exc |-> "TypeError", n |-> 0]

\* ------------------------------------------------------ regular expressions

KeyAt(u, a, word) == IsAt(u, a, QUOTE) /\ IsAt(u, a + 1, word) /\ IsAt(u, a + 2, QUOTE)

\* [^{}]*"explanation"[^{}]*"probability"[^{}]* matches all of u.
HasKeysInOrder(u) ==
    /\ \A k \in 1..Len(u) : u[k] \notin {LBRACE, RBRACE}
    /\ \E a, b \in 1..Len(u) :
          KeyAt(u, a, "explanation") /\ KeyAt(u, b, "probability") /\ b >= a + 3

\* Where a match of \{[^{}]*"explanation"[^{}]*"probability"[^{}]*\} that starts
\* at i ends (0: none starts there).
ObjectMatchEnd(t, i) ==
    IF ~IsAt(t, i, LBRACE) THEN 0
    ELSE LET j == IndexFrom(t, i + 1, {LBRACE, RBRACE})
         IN  IF j = 0 THEN 0
             ELSE IF t[j] = RBRACE /\ HasKeysInOrder(SubSeq(t, i + 1, j - 1)) THEN j
             ELSE 0

\* re.search of that pattern: the leftmost match, as the text matched.
SearchObject(t) ==
    LET starts == {i \in 1..Len(t) : ObjectMatchEnd(t, i) # 0}
    IN  IF starts = {} THEN [found |-> FALSE, s |-> <<>>]
        ELSE LET i == CHOOSE x \in starts : \A y \in starts : x <= y
             IN  [found |-> TRUE, s |-> SubSeq(t, i, ObjectMatchEnd(t, i))]

\* Where a match of 0?\.\d+|[01]\.?\d* that starts at i ends (0: none).
NumberMatchEnd(t, i) ==
    IF IsAt(t, i, "0") /\ IsAt(t, i + 1, DOT) /\ IsDigitAt(t, i + 2)
        THEN DigitRunEnd(t, i + 2)
    ELSE IF IsAt(t, i, DOT) /\ IsDigitAt(t, i + 1) THEN DigitRunEnd(t, i + 1)
    ELSE IF IsAt(t, i, "0") \/ IsAt(t, i, "1")
        THEN DigitRunEnd(t, (IF IsAt(t, i + 1, DOT) THEN i + 1 ELSE i) + 1)
    ELSE 0

\* re.findall of that pattern, as far as its first match.
FindNumbers(t) ==
    LET starts == {i \in 1..Len(t) : NumberMatchEnd(t, i) # 0}
    IN  IF starts = {} THEN <<>>
        ELSE LET i == CHOOSE x \in starts : \A y \in starts : x <= y
             IN  <<SubSeq(t, i, NumberMatchEnd(t, i))>>

\* ------------------------------------------- _parse_probability_response

\* What a call ends with: a returned (prob, explanation) pair, or an exception
\* that leaves the function.
Returns(prob, explanation) ==
    [kind |-> "return", prob |-> prob, explanation |-> explanation, exc |-> ""]

Raises(exc) == [kind |-> "raise", prob |-> 0, explanation |-> <<>>, exc |-> exc]

\* An explanation as the text it is; a value that is no string is named by its type.
ExplanationOf(v) == IF v.t = "str" THEN v.s ELSE <<"<", v.t, ">">>

\* Lines 206-216: strip, drop an opening fence (7 characters with the json tag:
\* two lexemes; 3 without: one) and a closing one, strip again.
CleanText(response_text) ==
    LET stripped == Strip(response_text)
        unfenced ==
            IF StartsWithFenceJson(stripped) THEN
                LET rest == PySliceFrom(stripped, 2)
                IN  IF EndsWithFence(rest) THEN PySliceTo(rest, 0 - 1) ELSE rest
            ELSE IF StartsWithFence(stripped) THEN
                LET rest == PySliceFrom(stripped, 1)
                IN  IF EndsWithFence(rest) THEN PySliceTo(rest, 0 - 1) ELSE rest
            ELSE stripped
    IN  Strip(unfenced)

\* Lines 238-245: the handler of json.JSONDecodeError and ValueError.
NumericFallback(response_text) ==
    LET numbers == FindNumbers(response_text)
    IN  IF numbers # <<>> THEN
            LET f == FloatOfStr(numbers[1])
            IN  IF f.ok
                THEN Returns(Clamp(f.n), <<"Fallback parse: ">> \o response_text)
                ELSE Raises("ValueError")
        ELSE Returns(One \div 2, <<"Parse failed: ">> \o response_text)

\* Lines 219-222: the text handed to json.loads, the first match of the object
\* pattern where there is one and the whole cleaned text otherwise.
JsonText(cleaned_text, json_match) ==
    IF json_match.found THEN json_match.s ELSE cleaned_text

\* Lines 225-232: the two fields of the decoded result, clamped and returned; a
\* ValueError of float() goes to the handler of line 234, any other exception
\* leaves the function.
FromFields(response_text, f, explanation) ==
    IF f.exc = "ValueError" THEN NumericFallback(response_text)
    ELSE IF f.exc # "" THEN Raises(f.exc)
    ELSE Returns(Clamp(f.n), ExplanationOf(explanation))

\* Lines 222-236: json.loads and the two result.get calls. A decode error goes
\* to the handler of line 234; a decoded value that is no dict has no get, an
\* AttributeError the handler does not name.
FromLoaded(response_text, loaded) ==
    IF ~loaded.ok THEN NumericFallback(response_text)
    ELSE IF loaded.v.t # "obj" THEN Raises("AttributeError")
    ELSE FromFields(response_text,
            PyFloat(DictGet(loaded.v.m, <<"probability">>, JNum(One \div 2))),
            DictGet(loaded.v.m, <<"explanation">>, JStr(<<"No explanation provided">>)))

\* Lines 219-236 on the cleaned text.
FromCleaned(response_text, cleaned_text) ==
    FromLoaded(response_text, JsonLoads(JsonText(cleaned_text, SearchObject(cleaned_text))))

\* Lines 202-245.
parse_probability_response(response_text) ==
    FromCleaned(response_text, CleanText(response_text))

\* ------------------------------------------------------- the parser's inputs

\* The numeral json.dumps writes for a probability of p tenths, 0 <= p <= One.
DigitOf(n) == CHOOSE d \in Digits : DigitVal(d) = n

Numeral(p) == <<DigitOf(p \div One), DOT, DigitOf(p % One)>>

\* A string literal of the characters e.
RECURSIVE Escape(_)
Escape(e) ==
    IF e = <<>> THEN <<>>
    ELSE <<IF e[1] = QUOTE THEN ESCQUOTE ELSE e[1]>> \o Escape(Tail(e))

StringLiteral(e) == <<QUOTE>> \o Escape(e) \o <<QUOTE>>

\* {"explanation": e, "probability": p}
Payload(e, p) ==
    <<LBRACE>> \o StringLiteral(<<"explanation">>) \o <<COLON, SP>> \o StringLiteral(e)
        \o <<COMMA, SP>> \o StringLiteral(<<"probability">>) \o <<COLON, SP>>
        \o Numeral(p) \o <<RBRACE>>

Fences == {"bare", "fence", "fence-json"}

Fenced(text, fence) ==
    CASE fence = "bare" -> text
      [] fence = "fence" -> <<FENCE, NL>> \o text \o <<NL, FENCE>>
      [] fence = "fence-json" -> <<FENCE, JSONTAG, NL>> \o text \o <<NL, FENCE>>

\* Explanations an oracle may give: a word, nothing, text with braces, with a
\* quote, with a number, with the name of a key.
Explanations ==
    { <<"w">>, <<>>, <<"w", SP, LBRACE, "w", RBRACE>>, <<"w", QUOTE>>,
      <<"0", DOT, "2", SP, "w">>, <<"probability">> }

Probabilities == 0..One

WellFormedTexts ==
    {Fenced(Payload(e, p), f) : e \in Explanations, p \in Probabilities, f \in Fences}

\* Free text: every sequence of at most MaxProseLen of these lexemes.
ProseAlphabet == {"w", SP, "0", "1", "7", DOT, QUOTE, LBRACE, RBRACE, NULL}

\* A number of the text has at most one digit after its point: it is a whole
\* number of tenths.
InTenths(t) ==
    \A k \in 1..Len(t) : ~(IsAt(t, k, DOT) /\ IsDigitAt(t, k + 1) /\ IsDigitAt(t, k + 2))

ProseTexts ==
    {t \in UNION {[1..k -> ProseAlphabet] : k \in 1..MaxProseLen} : InTenths(t)}

\* An object of one member, "probability", whose value is the lexemes v.
ProbabilityOnly(v) ==
    <<LBRACE>> \o StringLiteral(<<"probability">>) \o <<COLON, SP>> \o v \o <<RBRACE>>

\* The object the prompts ask for, with the lexemes v for its probability.
PayloadWith(e, v) ==
    <<LBRACE>> \o StringLiteral(<<"explanation">>) \o <<COLON, SP>> \o StringLiteral(e)
        \o <<COMMA, SP>> \o StringLiteral(<<"probability">>) \o <<COLON, SP>>
        \o v \o <<RBRACE>>

\* The same object with its keys in the other order.
PayloadProbabilityFirst(e, p) ==
    <<LBRACE>> \o StringLiteral(<<"probability">>) \o <<COLON, SP>> \o Numeral(p)
        \o <<COMMA, SP>> \o StringLiteral(<<"explanation">>) \o <<COLON, SP>>
        \o StringLiteral(e) \o <<RBRACE>>

\* Responses that drift from the format asked for: probabilities out of range,
\* an object without explanation, a probability that is null or a string,
\* JSON that is no object, and an object with prose and numbers around it.
DriftTexts ==
    { PayloadWith(<<"w">>, <<"1", DOT, "7">>),
      PayloadWith(<<"w">>, <<MINUS, "0", DOT, "3">>),
      Fenced(PayloadWith(<<"w">>, <<"1", "7">>), "fence-json"),
      ProbabilityOnly(<<"1", DOT, "7">>),
      ProbabilityOnly(<<MINUS, "0", DOT, "3">>),
      ProbabilityOnly(<<"0", DOT, "7">>),
      ProbabilityOnly(<<NULL>>),
      ProbabilityOnly(StringLiteral(<<"0", DOT, "7">>)),
      ProbabilityOnly(StringLiteral(<<"w">>)),
      ProbabilityOnly(StringLiteral(<<"w", SP, "1", DOT, "7">>)),
      ProbabilityOnly(<<LBRACKET, "0", DOT, "7", RBRACKET>>),
      <<LBRACKET, "0", DOT, "7", RBRACKET>>,
      <<LBRACKET, RBRACKET>>,
      <<MINUS, "0", DOT, "3">>,
      <<"w", SP, MINUS, "0", DOT, "3">>,
      <<"w", SP, "1", DOT, "7", SP, "w", DOT>>,
      <<"w", SP>> \o Payload(<<"w">>, 3) \o <<SP, "0", DOT, "9">>,
      <<"0", DOT, "9", SP>> \o Payload(<<"w">>, 3) \o <<SP, "w">>,
      <<"w", SP>> \o Payload(<<"w", SP, LBRACE, "w", RBRACE>>, 3) \o <<SP, "0", DOT, "9">>,
      PayloadProbabilityFirst(<<"w">>, 3),
      <<"w", SP>> \o PayloadProbabilityFirst(<<"w">>, 3) \o <<SP, "0", DOT, "9">>,
      <<"0", DOT, "9", SP>> \o PayloadProbabilityFirst(<<"w">>, 3) \o <<SP, "w">>,
      <<"0", DOT, "9", SP>> \o PayloadWith(<<"w">>, <<"1", DOT, "7">>) \o <<SP, "w">> }

ResponseTexts == WellFormedTexts \cup ProseTexts \cup DriftTexts

\* ------------------------------------------------------------ the pipeline

\* An optional integer argument: None, or an int.
None == [given |-> FALSE, v |-> 0]

Some(v) == [given |-> TRUE, v |-> v]

\* The truth value Python gives an optional int in a condition.
Truthy(x) == x.given /\ x.v # 0

\* Fewest characters, less one, of a fragment that split_into_sentences keeps.
MinSentenceChars == 10

\* An article of n sentences of 11 characters, numbered 1..n in the order of the
\* text, that ends with a fragment of 3 characters.
Article(n) ==
    [k \in 1..(n + 1) |->
        IF k <= n THEN [text |-> k, chars |-> 11] ELSE [text |-> 0, chars |-> 3]]

\* A fragment of exactly the least length kept as well.
FragmentAtLeast(f) == f.chars >= MinSentenceChars

Fragment(f) == f.chars > MinSentenceChars

\* Lines 140-149, on a text given as the fragments the pattern splits it into.
split_into_sentences(text) ==
    LET kept == SelectSeq(text, Fragment)
    IN  [k \in 1..Len(kept) |-> kept[k].text]

\* The limit taken before the skip: what lines 255-263 would do in the other order.
LimitSentencesCapFirst(all, skip, limit) ==
    LET capped == IF Truthy(limit) THEN PySliceTo(all, limit.v) ELSE all
    IN  IF skip > 0 THEN PySliceFrom(capped, skip) ELSE capped

\* Lines 255-263: the skip, then the limit.
LimitSentences(all, skip, limit) ==
    LET skipped == IF skip > 0 THEN PySliceFrom(all, skip) ELSE all
    IN  IF Truthy(limit) THEN PySliceTo(skipped, limit.v) ELSE skipped

\* Lines 151-169: what extract_claims returns on an oracle outcome: the decoded
\* list, or [] for a call that raised or a response that does not decode.
extract_claims(outcome) == IF outcome.failed THEN <<>> ELSE outcome.claims

\* The last claim texts kept where lines 277-278 keep the first.
LimitClaimsKeepLast(claim_texts, limit) ==
    IF Truthy(limit) THEN PySliceFrom(claim_texts, 0 - limit.v) ELSE claim_texts

\* No truncation: what lines 276-281 would do without the slice.
LimitClaimsKeepAll(claim_texts, limit) == claim_texts

\* Lines 276-281.
LimitClaims(claim_texts, limit) ==
    IF Truthy(limit) THEN PySliceTo(claim_texts, limit.v) ELSE claim_texts

\* Lines 171-200: calculate_interpretation_probability and
\* calculate_truth_probability, which differ in their prompt alone: the call of
\* the oracle and the parse of its stripped response, under except Exception.
Recovered(parsed) ==
    IF parsed.kind = "raise"
    THEN [prob |-> One \div 2, explanation |-> <<"Error: ", parsed.exc>>]
    ELSE [prob |-> parsed.prob, explanation |-> parsed.explanation]

\* The same with 0 for the probability of a failed call.
FailureAsZero(outcome) ==
    IF outcome.raised THEN [prob |-> 0, explanation |-> <<"Error: ", "OracleError">>]
    ELSE Recovered(parse_probability_response(Strip(outcome.content)))

calculate_probability(outcome) ==
    IF outcome.raised THEN [prob |-> One \div 2, explanation |-> <<"Error: ", "OracleError">>]
    ELSE Recovered(parse_probability_response(Strip(outcome.content)))

\* Two slips of the formula below: the truth probability where the falsehood
\* probability belongs, and a square where the cube belongs.
MicroliesTruthForFalse(prob_interpreted, prob_true) ==
    (prob_interpreted * prob_true) ^ 3 * (1000000 \div One ^ 6)

MicroliesSquared(prob_interpreted, prob_true) ==
    (prob_interpreted * (One - prob_true)) ^ 2 * (1000000 \div One ^ 6)

\* Lines 291-293: (prob_interpreted * prob_false) ** 3 * 1000000, which in
\* tenths is (a/One * b/One)^3 * 1000000 = (a * b)^3 * (1000000 / One^6).
Microlies(prob_interpreted, prob_true) ==
    LET prob_false == One - prob_true
    IN  (prob_interpreted * prob_false) ^ 3 * (1000000 \div One ^ 6)

\* sum(...) of a sequence of numbers
RECURSIVE Sum(_)
Sum(xs) == IF xs = <<>> THEN 0 ELSE xs[1] + Sum(Tail(xs))

\* The sum of line 310 without its first term.
SentenceMicroliesSkipFirst(claims) ==
    Sum([k \in 1..(Len(claims) - 1) |-> claims[k + 1].microlies])

\* Line 310.
SentenceMicrolies(claims) == Sum([k \in 1..Len(claims) |-> claims[k].microlies])

\* ------------------------------------------------------------ the roll-ups

\* A rate: a quotient, the literal 0, a division fault, or a rate not computed.
Quotient(a, b) == [state |-> "value", num |-> a, den |-> b]

Zero == [state |-> "value", num |-> 0, den |-> 1]

ZeroDivisionError == [state |-> "ZeroDivisionError", num |-> 0, den |-> 1]

Absent == [state |-> "absent", num |-> 0, den |-> 1]

\* a / b
PyDiv(a, b) == IF b = 0 THEN ZeroDivisionError ELSE Quotient(a, b)

\* The sum below without its last term.
ArticleMicroliesSkipLast(results) ==
    Sum([k \in 1..(Len(results) - 1) |-> results[k].sentence_microlies])

\* sum(analysis.sentence_microlies for analysis in results)
ArticleMicrolies(results) == Sum([k \in 1..Len(results) |-> results[k].sentence_microlies])

\* sum(len(analysis.claims) for analysis in results)
TotalClaims(results) == Sum([k \in 1..Len(results) |-> Len(results[k].claims)])

\* The sentences_data every consumer builds: the records, field by field.
SentencesData(results) ==
    [k \in 1..Len(results) |->
        [sentence |-> results[k].sentence,
         sentence_microlies |-> results[k].sentence_microlies,
         claims |-> [c \in 1..Len(results[k].claims) |->
            [text |-> results[k].claims[c].text,
             probability_interpreted |-> results[k].claims[c].probability_interpreted,
             probability_true |-> results[k].claims[c].probability_true,
             interpretation_explanation |-> results[k].claims[c].interpretation_explanation,
             truth_explanation |-> results[k].claims[c].truth_explanation,
             microlies |-> results[k].claims[c].microlies]]]]

\* The rate below without its guard.
GuardedRateUnguarded(x, d) == PyDiv(x, d)

\* x / d if d > 0 else 0
GuardedRate(x, d) == IF d > 0 THEN PyDiv(x, d) ELSE Zero

\* if d > 0: print(x / d)
PrintedRate(x, d) == IF d > 0 THEN PyDiv(x, d) ELSE Absent

\* app.py lines 114-132 and 273-291: the summary of the two form routes.
WebSummary(route, results) ==
    LET total_sentences == Len(results)
        total_claims == TotalClaims(results)
        article_microlies == ArticleMicrolies(results)
    IN  [by |-> route,
         article_microlies |-> article_microlies,
         total_sentences |-> total_sentences,
         total_claims |-> total_claims,
         avg_claims_per_sentence |-> GuardedRate(total_claims, total_sentences),
         avg_microlies_per_sentence |-> GuardedRate(article_microlies, total_sentences),
         avg_microlies_per_claim |-> GuardedRate(article_microlies, total_claims),
         sentences |-> SentencesData(results)]

\* app.py lines 171-201: the response of the JSON API.
ApiResponse(results) ==
    [by |-> "api",
     article_microlies |-> ArticleMicrolies(results),
     total_sentences |-> Len(results),
     total_claims |-> TotalClaims(results),
     avg_claims_per_sentence |-> Absent,
     avg_microlies_per_sentence |-> Absent,
     avg_microlies_per_claim |-> Absent,
     sentences |-> SentencesData(results)]

\* article_analyzer.py lines 323-353 and 387-400: the file save_results writes
\* and the rates main prints after it.
CliReport(results) ==
    LET total_sentences == Len(results)
        total_claims == TotalClaims(results)
        total_microlies == ArticleMicrolies(results)
    IN  [by |-> "cli",
         article_microlies |-> ArticleMicrolies(results),
         total_sentences |-> total_sentences,
         total_claims |-> total_claims,
         avg_claims_per_sentence |-> PrintedRate(total_claims, total_sentences),
         avg_microlies_per_sentence |-> PrintedRate(total_microlies, total_sentences),
         avg_microlies_per_claim |-> PrintedRate(total_microlies, total_claims),
         sentences |-> SentencesData(results)]

NoReport ==
    [by |-> "none", article_microlies |-> 0, total_sentences |-> 0, total_claims |-> 0,
     avg_claims_per_sentence |-> Absent, avg_microlies_per_sentence |-> Absent,
     avg_microlies_per_claim |-> Absent, sentences |-> <<>>]

\* ------------------------------------------------------- the oracle's answers

\* What a probability call of the oracle ends with: an exception, or a response.
OracleRaises == [raised |-> TRUE, content |-> <<>>]

OracleSays(content) == [raised |-> FALSE, content |-> content]

\* The answers the pipeline is run on: a failure, and a well-formed payload of
\* probability 0.2.
ProbabilityOutcomes == {OracleRaises, OracleSays(Payload(<<"w">>, 2))}

\* calculate_probability on each of these answers, worked out once.
ProbabilityOf == [outcome \in ProbabilityOutcomes |-> calculate_probability(outcome)]

\* What an extraction call ends with: a failure (an exception, a response that
\* does not decode), a list of k claim texts, numbered 1..k in its order, or
\* well-formed JSON that is no list: null.
ExtractionOutcomes ==
    {[failed |-> TRUE, decoded |-> "none", claims |-> <<>>]}
        \cup {[failed |-> FALSE, decoded |-> "list", claims |-> [c \in 1..k |-> c]] :
                    k \in 0..MaxExtract}
        \cup {[failed |-> FALSE, decoded |-> "null", claims |-> <<>>]}

\* A failed extraction treated like a value that is no list: no except clause.
IsListUnlessFailed(outcome) == ~outcome.failed /\ outcome.decoded = "list"

\* Lines 164-165 return what json.loads decoded, whatever its type; lines
\* 277-284 slice it, take its len() and iterate it, which a list allows and
\* None does not (TypeError).
IsList(outcome) == outcome.failed \/ outcome.decoded = "list"

\* The oracle calls of a run, as the trace keeps them: the operation, the
\* sentence and claim it is for, the article text it is given as context and
\* whether it failed. Line 274: extract_claims is given the sentence alone.
ExtractionCall(sentence, outcome) ==
    [op |-> "extract", sentence |-> sentence, claim |-> 0, context |-> <<>>,
     failed |-> outcome.failed]

\* A probability call that is given the sentence at hand for its context.
ProbabilityCallOnSentence(op, sentence, claim_text, context, outcome) ==
    [op |-> op, sentence |-> sentence, claim |-> claim_text,
     context |-> <<[text |-> sentence, chars |-> MinSentenceChars + 1]>>,
     failed |-> outcome.raised]

\* The truth call made first, and the interpretation call after it.
ProbabilityCallTruthFirst(op, sentence, claim_text, context, outcome) ==
    [op |-> IF op = "truth" THEN "interpretation" ELSE "truth", sentence |-> sentence,
     claim |-> claim_text, context |-> context, failed |-> outcome.raised]

\* Lines 288-289: both probability calls are given article_text.
ProbabilityCall(op, sentence, claim_text, context, outcome) ==
    [op |-> op, sentence |-> sentence, claim |-> claim_text, context |-> context,
     failed |-> outcome.raised]

\* ------------------------------------------- split_into_sentences, on a text

\* A text is its words (runs of what is no whitespace) and the runs of
\* whitespace between them. A token is such a run, with its length, whether it
\* starts with a letter of A-Z, and whether it ends with one of . ! ?
Token(space, upper, chars, stop) ==
    [space |-> space, upper |-> upper, chars |-> chars, stop |-> stop]

\* The texts of n tokens: words of 4, 5 or 11 characters and runs of 1 or 2
\* characters of whitespace, in turn.
RECURSIVE TokenTexts(_)
TokenTexts(n) ==
    IF n = 0 THEN {<<>>}
    ELSE {Append(p[1], p[2]) :
            p \in {q \in TokenTexts(n - 1)
                            \X ({Token(TRUE, FALSE, chars, FALSE) : chars \in 1..2}
                                \cup {Token(FALSE, upper, chars, stop) :
                                        upper \in BOOLEAN, chars \in {4, 5, 11},
                                        stop \in BOOLEAN}) :
                        q[1] = <<>> \/ q[1][Len(q[1])].space # q[2].space}}

\* "Sales rose. The CEO announced new plans. OK."
SalesRose ==
    <<Token(FALSE, TRUE, 5, FALSE), Token(TRUE, FALSE, 1, FALSE),
      Token(FALSE, FALSE, 5, TRUE), Token(TRUE, FALSE, 1, FALSE),
      Token(FALSE, TRUE, 3, FALSE), Token(TRUE, FALSE, 1, FALSE),
      Token(FALSE, TRUE, 3, FALSE), Token(TRUE, FALSE, 1, FALSE),
      Token(FALSE, FALSE, 9, FALSE), Token(TRUE, FALSE, 1, FALSE),
      Token(FALSE, FALSE, 3, FALSE), Token(TRUE, FALSE, 1, FALSE),
      Token(FALSE, FALSE, 6, TRUE), Token(TRUE, FALSE, 1, FALSE),
      Token(FALSE, TRUE, 3, TRUE)>>

\* Lines 143-144: sentence_endings.split(text). The pattern matches a whole run
\* of whitespace that follows . ! or ? and precedes a letter of A-Z; the pieces
\* between the matches are returned, text[start..] being scanned at i.
RECURSIVE SplitFrom(_, _, _)
SplitFrom(text, start, i) ==
    IF i > Len(text) THEN <<SubSeq(text, start, Len(text))>>
    ELSE IF /\ 1 < i
            /\ i < Len(text)
            /\ text[i].space
            /\ text[i - 1].stop
            /\ text[i + 1].upper
         THEN <<SubSeq(text, start, i - 1)>> \o SplitFrom(text, i + 1, i + 1)
         ELSE SplitFrom(text, start, i + 1)

\* s.strip()
RECURSIVE StripTokens(_)
StripTokens(s) ==
    IF s # <<>> /\ s[1].space THEN StripTokens(Tail(s))
    ELSE IF s # <<>> /\ s[Len(s)].space THEN StripTokens(SubSeq(s, 1, Len(s) - 1))
    ELSE s

\* Line 147: each piece as s.strip(), with len(s.strip()).
Fragments(pieces) ==
    [k \in 1..Len(pieces) |->
        [text |-> StripTokens(pieces[k]),
         chars |-> Sum([c \in 1..Len(StripTokens(pieces[k])) |->
                            StripTokens(pieces[k])[c].chars])]]

\* ------------------------------------------------------ the routes of app.py

\* Largest max_sentences and max_claims the routes pass on.
MaxSentencesCap == 50

MaxClaimsCap == 10

\* A value of a request: a key that is missing, a string of characters, or, in
\* a JSON body, an int or null.
Missing == [t |-> "missing", s |-> <<>>, n |-> 0]

StrValue(s) == [t |-> "str", s |-> s, n |-> 0]

IntValue(n) == [t |-> "int", s |-> <<>>, n |-> n]

NullValue == [t |-> "null", s |-> <<>>, n |-> 0]

\* form.get(key, default), args.get(key, default), data.get(key, default)
Get(value, default) == IF value.t = "missing" THEN default ELSE value

\* int(s) on a string: an optional sign and digits, or ValueError.
PyInt(s) ==
    LET signed == s # <<>> /\ s[1] \in {MINUS, "+"}
        digits == IF signed THEN Tail(s) ELSE s
    IN  IF digits = <<>> \/ \E i \in 1..Len(digits) : digits[i] \notin Digits
        THEN [ok |-> FALSE, n |-> 0]
        ELSE [ok |-> TRUE, n |-> IF signed /\ s[1] = MINUS THEN 0 - IntOf(digits) ELSE IntOf(digits)]

\* app.py lines 54-56 and 225-227: int(x) if x else default
FormInt(x, default) == IF x.s = <<>> THEN [ok |-> TRUE, n |-> default] ELSE PyInt(x.s)

\* app.py lines 53-68 and 224-237: the three arguments, the limits brought down
\* to the caps (lines 59-64 and 230-233), or ValueError.
FormArguments(sentences_value, claims_value, skip_value) ==
    IF sentences_value.ok /\ claims_value.ok /\ skip_value.ok
    THEN [ok |-> TRUE,
          max_sentences |-> Some(Min(sentences_value.n, MaxSentencesCap)),
          max_claims |-> Some(Min(claims_value.n, MaxClaimsCap)),
          skip_sentences |-> skip_value.n]
    ELSE [ok |-> FALSE, max_sentences |-> None, max_claims |-> None, skip_sentences |-> 0]

\* The truth value Python gives a value of a JSON body.
Falsy(x) ==
    \/ x.t = "null"
    \/ x.t = "str" /\ x.s = <<>>
    \/ x.t = "int" /\ x.n = 0

\* app.py lines 157-160: if x and x > cap: x = cap. A value that is true and
\* no number raises TypeError in the comparison.
ApiClamp(x, cap) ==
    IF Falsy(x) THEN [ok |-> TRUE, v |-> x]
    ELSE IF x.t # "int" THEN [ok |-> FALSE, v |-> x]
    ELSE [ok |-> TRUE, v |-> IF x.n > cap THEN IntValue(cap) ELSE x]

\* A limit of a JSON body as analyze_article sees it at lines 261 and 277: an
\* int, or a value that is false, which the two conditions take as they take None.
AsLimit(x) == IF x.t = "int" THEN Some(x.n) ELSE None

\* No request: analyze_article is called with its arguments as they are.
NoRequest ==
    [route |-> "none", input_method |-> "url", source |-> FALSE,
     max_sentences |-> Missing, max_claims |-> Missing, skip_sentences |-> Missing]

\* The requests served. max_sentences and max_claims are missing, the empty
\* string, a word, 0, or a number above both caps, and null or an int in a
\* JSON body; skip_sentences is missing, a word or 0.
Requests ==
    [route : {"post"}, input_method : {"url", "text"}, source : BOOLEAN,
     max_sentences : {Missing, StrValue(<<>>), StrValue(<<"a">>), StrValue(<<"0">>),
                      StrValue(<<"6", "0">>)},
     max_claims : {Missing, StrValue(<<>>), StrValue(<<"a">>), StrValue(<<"0">>),
                   StrValue(<<"6", "0">>)},
     skip_sentences : {Missing, StrValue(<<"a">>), StrValue(<<"0">>)}]
        \cup [route : {"get"}, input_method : {"url"}, source : BOOLEAN,
              max_sentences : {Missing, StrValue(<<>>), StrValue(<<"a">>),
                               StrValue(<<"0">>), StrValue(<<"6", "0">>)},
              max_claims : {Missing, StrValue(<<>>), StrValue(<<"a">>), StrValue(<<"0">>),
                            StrValue(<<"6", "0">>)},
              skip_sentences : {Missing, StrValue(<<"a">>), StrValue(<<"0">>)}]
        \cup [route : {"api"}, input_method : {"url"}, source : BOOLEAN,
              max_sentences : {Missing, NullValue, StrValue(<<>>), StrValue(<<"a">>),
                               IntValue(0), IntValue(MaxSentencesCap + MaxClaimsCap)},
              max_claims : {Missing, NullValue, StrValue(<<>>), StrValue(<<"a">>),
                            IntValue(0), IntValue(MaxSentencesCap + MaxClaimsCap)},
              skip_sentences : {Missing, StrValue(<<"a">>), IntValue(0)}]

\* ------------------------------------------------------------------- state

VARIABLES
    request,         \* the request a route of app.py is serving, if any
    pc,              \* where the run is
    skip_sentences,  \* analyze_article's arguments
    max_sentences,
    max_claims,
    article_text,    \* what fetch_article returned
    segmented,       \* what split_into_sentences returned
    sentences,       \* the sentences the loop goes over
    claim_texts,     \* the claim texts of the sentence at hand
    claims,          \* the Claim records of the sentence at hand
    interpreted,     \* the interpretation probability of the claim at hand
    results,         \* the SentenceAnalysis records
    extracted,       \* what extract_claims returned, sentence by sentence
    calls,           \* the oracle calls made, in order
    report,          \* what the caller made of the results
    parser_input,    \* the response text given to _parse_probability_response
    parser_output,   \* what the call ended with
    calculated,      \* what a calculate_*_probability call on that response returned
    score_input,     \* probabilities given to the microlies formula
    score_output,    \* the microlies it made of them
    split_input,     \* the text given to split_into_sentences
    split_output     \* the sentences it returned

pipelineVars ==
    <<pc, skip_sentences, max_sentences, max_claims, article_text, segmented, sentences,
      claim_texts, claims, interpreted, results, extracted, calls, report>>

parserVars == <<parser_input, parser_output, calculated>>

scoreVars == <<score_input, score_output>>

vars == <<pipelineVars, parserVars, scoreVars, request, split_input, split_output>>

NoProbability == [prob |-> 0, explanation |-> <<>>]

NotCalled == [kind |-> "none", prob |-> 0, explanation |-> <<>>, exc |-> ""]

NotCalculated == [called |-> FALSE, raised |-> FALSE, prob |-> 0, explanation |-> <<>>]

ParserIdle ==
    parser_input = <<>> /\ parser_output = NotCalled /\ calculated = NotCalculated

NoScores == [interpreted_lo |-> 0, interpreted_hi |-> 0, true_lo |-> 0, true_hi |-> 0]

ScoreIdle == score_input = [lo |-> 0, hi |-> 0, other |-> 0, scored |-> FALSE] /\ score_output = NoScores

NotSplit == [done |-> FALSE, sentences |-> <<>>]

SplitIdle == split_input = <<>> /\ split_output = NotSplit

\* The pipeline before a run, with the arguments of the run.
Unstarted(skip, limit_sentences, limit_claims) ==
    /\ skip_sentences = skip
    /\ max_sentences = limit_sentences
    /\ max_claims = limit_claims
    /\ article_text = <<>>
    /\ segmented = <<>>
    /\ sentences = <<>>
    /\ claim_texts = <<>>
    /\ claims = <<>>
    /\ interpreted = NoProbability
    /\ results = <<>>
    /\ extracted = <<>>
    /\ calls = <<>>
    /\ report = NoReport

PipelineAt(skip, limit_sentences, limit_claims) ==
    /\ pc = "start"
    /\ Unstarted(skip, limit_sentences, limit_claims)

Limits == {None} \cup {Some(v) : v \in 0..MaxLimit}

Init ==
    /\ \E skip \in 0..MaxSkip, ls \in Limits, lc \in Limits : PipelineAt(skip, ls, lc)
    /\ ParserIdle
    /\ ScoreIdle
    /\ request = NoRequest
    /\ SplitIdle

\* ----------------------------------------------------------- analyze_article

\* The failure seen only after a segmentation has been made.
FetchFailsAfterSplit ==
    /\ pc = "start"
    /\ pc' = "raised"
    /\ segmented' = split_into_sentences(Article(1))
    /\ UNCHANGED <<skip_sentences, max_sentences, max_claims, article_text, sentences,
                   claim_texts, claims, interpreted, results, extracted, calls, report,
                   parserVars, scoreVars, request, split_input, split_output>>

\* Line 256 compares skip_sentences with 0: TypeError for what is no number,
\* which only api_analyze passes on (app.py line 154).
SkipComparable ==
    request.route = "api" => Get(request.skip_sentences, IntValue(5)).t = "int"

\* The numbers of sentences of the articles fetched: up to MaxSegments for a
\* call of analyze_article, and for a request one, or one more than the cap.
ArticleLengths ==
    IF request = NoRequest THEN 0..MaxSegments ELSE {1, MaxSentencesCap + 1}

\* Line 250: fetch_article raises, and so does analyze_article.
FetchFails ==
    /\ pc = "start"
    /\ pc' = "raised"
    /\ UNCHANGED <<skip_sentences, max_sentences, max_claims, article_text, segmented,
                   sentences, claim_texts, claims, interpreted, results, extracted, calls,
                   report, parserVars, scoreVars, request, split_input, split_output>>

\* Lines 249-267: the text is fetched, split, and cut by the skip and the limit.
Prepare ==
    /\ pc = "start"
    /\ SkipComparable
    /\ \E n \in ArticleLengths :
        /\ article_text' = Article(n)
        /\ segmented' = split_into_sentences(article_text')
        /\ sentences' = LimitSentences(segmented', skip_sentences, max_sentences)
    /\ results' = <<>>
    /\ pc' = "sentence"
    /\ UNCHANGED <<skip_sentences, max_sentences, max_claims, claim_texts, claims,
                   interpreted, extracted, calls, report, parserVars, scoreVars, request, split_input, split_output>>

\* Lines 269-283: the next sentence's claims are extracted and cut by the limit.
ExtractClaims ==
    /\ pc = "sentence"
    /\ Len(results) < Len(sentences)
    /\ Len(calls) < MaxCalls
    /\ \E outcome \in ExtractionOutcomes :
        /\ calls' = Append(calls, ExtractionCall(sentences[Len(results) + 1], outcome))
        /\ IF IsList(outcome)
           THEN /\ extracted' = Append(extracted, extract_claims(outcome))
                /\ claim_texts' = LimitClaims(extract_claims(outcome), max_claims)
                /\ pc' = "claim"
           ELSE /\ pc' = "aborted"
                /\ UNCHANGED <<extracted, claim_texts>>
    /\ claims' = <<>>
    /\ UNCHANGED <<skip_sentences, max_sentences, max_claims, article_text, segmented,
                   sentences, interpreted, results, report, parserVars, scoreVars, request, split_input, split_output>>

\* Line 288: the interpretation probability of the next claim text.
InterpretationCall ==
    /\ pc = "claim"
    /\ Len(claims) < Len(claim_texts)
    /\ Len(calls) < MaxCalls
    /\ LET sentence == sentences[Len(results) + 1]
           claim_text == claim_texts[Len(claims) + 1]
       IN  \E outcome \in ProbabilityOutcomes :
            /\ interpreted' = ProbabilityOf[outcome]
            /\ calls' = Append(calls,
                    ProbabilityCall("interpretation", sentence, claim_text, article_text,
                                    outcome))
    /\ pc' = "truth"
    /\ UNCHANGED <<skip_sentences, max_sentences, max_claims, article_text, segmented,
                   sentences, claim_texts, claims, results, extracted, report, parserVars, scoreVars, request, split_input, split_output>>

\* A Claim record whose two calls share one handler: a failed truth call
\* takes the interpretation with it.
ClaimOfOneHandler(claim_text, interpretation, truth) ==
    LET failed == truth.explanation # <<>> /\ truth.explanation[1] = "Error: "
        first == IF failed THEN truth ELSE interpretation
    IN  [text |-> claim_text,
         probability_interpreted |-> first.prob,
         probability_true |-> truth.prob,
         interpretation_explanation |-> first.explanation,
         truth_explanation |-> truth.explanation,
         microlies |-> Microlies(first.prob, truth.prob)]

\* Lines 292-303: the Claim record of a claim text and its two probabilities.
ClaimOf(claim_text, interpretation, truth) ==
    [text |-> claim_text,
     probability_interpreted |-> interpretation.prob,
     probability_true |-> truth.prob,
     interpretation_explanation |-> interpretation.explanation,
     truth_explanation |-> truth.explanation,
     microlies |-> Microlies(interpretation.prob, truth.prob)]

\* Lines 289-303: the truth probability of that claim text, and its Claim record.
TruthCall ==
    /\ pc = "truth"
    /\ Len(calls) < MaxCalls
    /\ LET sentence == sentences[Len(results) + 1]
           claim_text == claim_texts[Len(claims) + 1]
       IN  \E outcome \in ProbabilityOutcomes :
            /\ claims' = Append(claims,
                    ClaimOf(claim_text, interpreted, ProbabilityOf[outcome]))
            /\ calls' = Append(calls,
                    ProbabilityCall("truth", sentence, claim_text, article_text, outcome))
    /\ interpreted' = NoProbability
    /\ pc' = "claim"
    /\ UNCHANGED <<skip_sentences, max_sentences, max_claims, article_text, segmented,
                   sentences, claim_texts, results, extracted, report, parserVars, scoreVars, request, split_input, split_output>>

\* Lines 309-317: the sentence's SentenceAnalysis record.
FinishSentence ==
    /\ pc = "claim"
    /\ Len(claims) = Len(claim_texts)
    /\ results' = Append(results,
            [sentence |-> sentences[Len(results) + 1],
             claims |-> claims,
             sentence_microlies |-> SentenceMicrolies(claims)])
    /\ claims' = <<>>
    /\ claim_texts' = <<>>
    /\ pc' = "sentence"
    /\ UNCHANGED <<skip_sentences, max_sentences, max_claims, article_text, segmented,
                   sentences, interpreted, extracted, calls, report, parserVars, scoreVars, request, split_input, split_output>>

\* Line 321.
Return ==
    /\ pc = "sentence"
    /\ Len(results) = Len(sentences)
    /\ pc' = "returned"
    /\ UNCHANGED <<skip_sentences, max_sentences, max_claims, article_text, segmented,
                   sentences, claim_texts, claims, interpreted, results, extracted, calls,
                   report, parserVars, scoreVars, request, split_input, split_output>>

\* Lines 250-256 with a skip_sentences that is no number: the text is fetched
\* and segmented, and the comparison of line 256 raises TypeError.
PrepareRaises ==
    /\ pc = "start"
    /\ ~SkipComparable
    /\ \E n \in ArticleLengths :
        /\ article_text' = Article(n)
        /\ segmented' = split_into_sentences(article_text')
    /\ pc' = "aborted"
    /\ UNCHANGED <<skip_sentences, max_sentences, max_claims, sentences, claim_texts, claims,
                   interpreted, results, extracted, calls, report, parserVars, scoreVars,
                   request, split_input, split_output>>

\* ----------------------------------------------------------------- callers

\* The route that serves the request; a call with no request is reported by
\* whichever caller made it.
Routed(route) == request.route \in {"none", route}

Reported(r) ==
    /\ pc = "returned"
    /\ report' = r
    /\ pc' = "done"
    /\ UNCHANGED <<skip_sentences, max_sentences, max_claims, article_text, segmented,
                   sentences, claim_texts, claims, interpreted, results, extracted, calls,
                   parserVars, scoreVars, request, split_input, split_output>>

\* main: save_results, then the printed summary.
MainReports == Routed("cli") /\ Reported(CliReport(results))

\* POST /analyze
AnalyzePostRenders == Routed("post") /\ Reported(WebSummary("post", results))

\* GET /analyze
AnalyzeGetRenders == Routed("get") /\ Reported(WebSummary("get", results))

\* POST /api/analyze
ApiResponds == Routed("api") /\ Reported(ApiResponse(results))

Next ==
    \/ FetchFails
    \/ Prepare
    \/ ExtractClaims
    \/ InterpretationCall
    \/ TruthCall
    \/ FinishSentence
    \/ Return
    \/ MainReports
    \/ AnalyzePostRenders
    \/ AnalyzeGetRenders
    \/ ApiResponds

Spec == Init /\ [][Next]_vars

\* ------------------------------------------------- the routes, on a request

\* A route goes on to next_pc with the arguments it has made.
Enter(next_pc, limit_sentences, limit_claims, skip) ==
    /\ pc' = next_pc
    /\ max_sentences' = limit_sentences
    /\ max_claims' = limit_claims
    /\ skip_sentences' = skip
    /\ UNCHANGED <<article_text, segmented, sentences, claim_texts, claims, interpreted,
                   results, extracted, calls, report, parserVars, scoreVars, request, split_input, split_output>>

\* A route ends with an error redirect or an error response.
Refuse(next_pc) == Enter(next_pc, max_sentences, max_claims, skip_sentences)

\* app.py lines 66-92 and 235-248: ValueError is answered with the redirect of
\* line 68 or 237; the text method, which only POST /analyze has, calls
\* analyzer.analyze_text, which ArticleAnalyzer does not define, and the
\* AttributeError is answered with the redirect of line 92.
FormInvokes(args) ==
    IF ~args.ok THEN Refuse("rejected")
    ELSE IF request.input_method # "url" THEN Refuse("failed")
    ELSE Enter("start", args.max_sentences, args.max_claims, args.skip_sentences)

\* POST /analyze, lines 31-92, up to the call of the analyzer.
AnalyzePost ==
    /\ pc = "request"
    /\ request.route = "post"
    /\ IF ~request.source THEN Refuse("rejected")
       ELSE FormInvokes(FormArguments(
                FormInt(Get(request.max_sentences, StrValue(<<>>)), 5),
                FormInt(Get(request.max_claims, StrValue(<<>>)), 10),
                FormInt(Get(request.skip_sentences, StrValue(<<"0">>)), 5)))

\* GET /analyze, lines 211-248, up to the call of the analyzer.
AnalyzeGet ==
    /\ pc = "request"
    /\ request.route = "get"
    /\ IF ~request.source THEN Refuse("rejected")
       ELSE FormInvokes(FormArguments(
                FormInt(Get(request.max_sentences, StrValue(<<"5">>)), 5),
                FormInt(Get(request.max_claims, StrValue(<<"1", "0">>)), 10),
                FormInt(Get(request.skip_sentences, StrValue(<<"3">>)), 3)))

\* app.py lines 157-169: a TypeError of the comparisons is answered by line
\* 206; the skip is passed on as it is (0 stands for one that is no number,
\* which line 256 of analyze_article never gets past).
ApiInvokes(limit_sentences, limit_claims, skip) ==
    IF ~limit_sentences.ok \/ ~limit_claims.ok THEN Refuse("rejected")
    ELSE Enter("start", AsLimit(limit_sentences.v), AsLimit(limit_claims.v),
               IF skip.t = "int" THEN skip.n ELSE 0)

\* POST /api/analyze, lines 145-169, up to the call of the analyzer.
ApiAnalyze ==
    /\ pc = "request"
    /\ request.route = "api"
    /\ IF ~request.source THEN Refuse("rejected")
       ELSE ApiInvokes(ApiClamp(Get(request.max_sentences, IntValue(5)), MaxSentencesCap),
                       ApiClamp(Get(request.max_claims, IntValue(10)), MaxClaimsCap),
                       Get(request.skip_sentences, IntValue(5)))

\* app.py lines 90-92, 249-251 and 205-206: an exception of analyze_article is
\* answered with an error redirect or an error response.
AnalysisFails ==
    /\ pc \in {"raised", "aborted"}
    /\ request # NoRequest
    /\ Refuse("failed")

BoundaryInit ==
    /\ request \in Requests
    /\ SplitIdle
    /\ pc = "request"
    /\ Unstarted(0, None, None)
    /\ ParserIdle
    /\ ScoreIdle

BoundaryNext ==
    \/ AnalyzePost
    \/ AnalyzeGet
    \/ ApiAnalyze
    \/ FetchFails
    \/ Prepare
    \/ PrepareRaises
    \/ ExtractClaims
    \/ InterpretationCall
    \/ TruthCall
    \/ FinishSentence
    \/ Return
    \/ AnalyzePostRenders
    \/ AnalyzeGetRenders
    \/ ApiResponds
    \/ AnalysisFails

BoundarySpec == BoundaryInit /\ [][BoundaryNext]_vars

\* ------------------------------------------- the parser, one call at a time

\* One call of _parse_probability_response on the text drawn.
Parse ==
    /\ parser_output = NotCalled
    /\ parser_input # <<>>
    /\ parser_output' = parse_probability_response(parser_input)
    /\ UNCHANGED <<parser_input, calculated, pipelineVars, scoreVars, request, split_input, split_output>>

\* The pair a calculate_*_probability call returned, with how the oracle ended.
CalculatedOf(outcome, returned) ==
    [called |-> TRUE, raised |-> outcome.raised,
     prob |-> returned.prob, explanation |-> returned.explanation]

\* Lines 171-200 on their own: the oracle raises, or answers with the text.
Calculate ==
    /\ calculated = NotCalculated
    /\ parser_input # <<>>
    /\ \E outcome \in {OracleRaises, OracleSays(parser_input)} :
        calculated' = CalculatedOf(outcome, calculate_probability(outcome))
    /\ UNCHANGED <<parser_input, parser_output, pipelineVars, scoreVars, request, split_input, split_output>>

ParserInit ==
    /\ parser_input \in ResponseTexts
    /\ parser_output = NotCalled
    /\ calculated = NotCalculated
    /\ PipelineAt(0, None, None)
    /\ ScoreIdle
    /\ request = NoRequest
    /\ SplitIdle

ParserSpec == ParserInit /\ [][Parse \/ Calculate]_vars

\* ------------------------------------ the microlies formula, pair by pair

\* Lines 291-293 on two probabilities lo <= hi, each as the interpretation
\* probability and as the truth probability, beside a third.
Score ==
    /\ ~score_input.scored
    /\ score_input' = [score_input EXCEPT !.scored = TRUE]
    /\ score_output' =
        [interpreted_lo |-> Microlies(score_input.lo, score_input.other),
         interpreted_hi |-> Microlies(score_input.hi, score_input.other),
         true_lo |-> Microlies(score_input.other, score_input.lo),
         true_hi |-> Microlies(score_input.other, score_input.hi)]
    /\ UNCHANGED <<pipelineVars, parserVars, request, split_input, split_output>>

ScoreInit ==
    /\ \E lo, hi, other \in Probabilities :
        /\ lo <= hi
        /\ score_input = [lo |-> lo, hi |-> hi, other |-> other, scored |-> FALSE]
    /\ score_output = NoScores
    /\ PipelineAt(0, None, None)
    /\ ParserIdle
    /\ request = NoRequest
    /\ SplitIdle

ScoreSpec == ScoreInit /\ [][Score]_vars

\* ------------------------------------- split_into_sentences, text by text

\* One call of split_into_sentences (lines 140-149) on the text drawn.
Split ==
    /\ ~split_output.done
    /\ split_output' =
        [done |-> TRUE,
         sentences |-> split_into_sentences(Fragments(SplitFrom(split_input, 1, 1)))]
    /\ UNCHANGED <<split_input, pipelineVars, parserVars, scoreVars, request>>

SplitInit ==
    /\ split_input \in UNION {TokenTexts(n) : n \in 0..MaxTokens} \cup {SalesRose}
    /\ split_output = NotSplit
    /\ PipelineAt(0, None, None)
    /\ ParserIdle
    /\ ScoreIdle
    /\ request = NoRequest

SplitSpec == SplitInit /\ [][Split]_vars

\* -------------------------------------------------------------- properties

\* The microlies of a list of Claim records, added up term by term.
RECURSIVE MicroliesOf(_)
MicroliesOf(records) ==
    IF records = <<>> THEN 0 ELSE records[1].microlies + MicroliesOf(Tail(records))

\* C1: after analyze_article completes, the sentence_microlies of every
\* SentenceAnalysis of the result is the sum of the microlies of exactly the
\* Claim records of its claims list, and 0 where that list is empty.
C1_SentenceMicroliesIsSum ==
    pc \in {"returned", "done"} =>
        \A k \in 1..Len(results) :
            /\ results[k].sentence_microlies = MicroliesOf(results[k].claims)
            /\ results[k].claims = <<>> => results[k].sentence_microlies = 0

\* A completed run whose result has a sentence of two claims and a positive
\* total, and a sentence of no claims.
C1_Witness ==
    /\ pc = "returned"
    /\ \E j, k \in 1..Len(results) :
        /\ Len(results[j].claims) = 2
        /\ results[j].claims[1].microlies > 0
        /\ results[j].sentence_microlies > results[j].claims[1].microlies
        /\ results[k].claims = <<>>
        /\ results[k].sentence_microlies = 0

\* The sentence_microlies of a list of SentenceAnalysis records, added up.
RECURSIVE SentenceMicroliesOf(_)
SentenceMicroliesOf(analyses) ==
    IF analyses = <<>> THEN 0
    ELSE analyses[1].sentence_microlies + SentenceMicroliesOf(Tail(analyses))

\* C2: the article_microlies that save_results, the two form routes and the
\* JSON API report for a result is the sum of the sentence_microlies of all its
\* SentenceAnalysis records, and 0 for an empty result.
C2_ArticleMicroliesIsSum ==
    pc = "done" =>
        /\ report.by \in {"cli", "post", "get", "api"}
        /\ report.article_microlies = SentenceMicroliesOf(results)
        /\ results = <<>> => report.article_microlies = 0

\* The JSON API has answered for a result of two sentences, each with
\* microlies of its own.
C2_Witness ==
    /\ pc = "done"
    /\ report.by = "api"
    /\ Len(results) = 2
    /\ results[1].sentence_microlies > 0
    /\ results[2].sentence_microlies > 0
    /\ report.article_microlies > results[1].sentence_microlies

\* Every Claim record there is: those of the sentence at hand and those of the
\* result.
ClaimRecords ==
    {claims[c] : c \in 1..Len(claims)}
        \cup UNION {{results[k].claims[c] : c \in 1..Len(results[k].claims)} :
                        k \in 1..Len(results)}

\* C3: every Claim record analyze_article makes has microlies =
\* (probability_interpreted * (1 - probability_true))^3 * 1,000,000, of the
\* two probabilities stored in that same record.
C3_MicroliesOfStoredProbabilities ==
    \A record \in ClaimRecords :
        record.microlies =
            (record.probability_interpreted * (One - record.probability_true)) ^ 3
                * (1000000 \div One ^ 6)

\* A record of interpretation probability 0.5 and truth probability 0.2:
\* (0.5 * 0.8)^3 * 1,000,000 = 64,000.
C3_Witness ==
    \E record \in ClaimRecords :
        /\ record.probability_interpreted = 5
        /\ record.probability_true = 2
        /\ record.microlies = 64000

\* C4: on the grid of probabilities, microlies does not decrease as
\* probability_interpreted grows with probability_true fixed, does not increase
\* as probability_true grows with probability_interpreted fixed;
\* microlies(1, 0) = 1,000,000, microlies(0, p) = 0 and microlies(p, 1) = 0.
C4_MonotoneWithFixedEnds ==
    score_input.scored =>
        /\ score_output.interpreted_lo <= score_output.interpreted_hi
        /\ score_output.true_lo >= score_output.true_hi
        /\ (score_input.hi = One /\ score_input.other = 0) =>
                score_output.interpreted_hi = 1000000
        /\ score_input.lo = 0 => score_output.interpreted_lo = 0
        /\ score_input.hi = One => score_output.true_hi = 0

\* The formula has been applied to 0.3 and 1 against 0: interpretations 0.3
\* and 1 of a claim that is false for sure, and truths 0.3 and 1 of a claim
\* that is not meant.
C4_Witness ==
    /\ score_input = [lo |-> 3, hi |-> One, other |-> 0, scored |-> TRUE]
    /\ score_output.interpreted_lo = 27000
    /\ score_output.interpreted_hi = 1000000
    /\ score_output.true_hi = 0

Rates(r) ==
    {r.avg_claims_per_sentence, r.avg_microlies_per_sentence, r.avg_microlies_per_claim}

NoClaims == \A k \in 1..Len(results) : results[k].claims = <<>>

\* C5: no summary raises a division error, for any result; in the summary of
\* the form routes each of the three rates is 0 when its denominator is 0: all
\* three with no sentence, avg_microlies_per_claim with no claim. (main prints
\* no rate whose denominator is 0, and the JSON API reports no rate.)
C5_RatesGuarded ==
    pc = "done" =>
        /\ \A rate \in Rates(report) : rate.state # "ZeroDivisionError"
        /\ report.by \in {"post", "get"} =>
            /\ \A rate \in Rates(report) : rate.state = "value"
            /\ results = <<>> => \A rate \in Rates(report) : rate = Zero
            /\ NoClaims => report.avg_microlies_per_claim = Zero
        /\ report.by = "cli" =>
            /\ results = <<>> => \A rate \in Rates(report) : rate = Absent
            /\ NoClaims => report.avg_microlies_per_claim = Absent

\* POST /analyze has rendered a result of sentences without a single claim.
C5_Witness ==
    /\ pc = "done"
    /\ report.by = "post"
    /\ results # <<>>
    /\ NoClaims
    /\ report.avg_claims_per_sentence = Quotient(0, Len(results))
    /\ report.avg_microlies_per_claim = Zero

\* C6: with a skip s >= 0 and a limit m >= 1 on an article segmented into n
\* sentences, the sentences analysed are segments s+1 .. min(n, s+m) of the
\* segmentation in their order, the skip first and the cap second; the result
\* holds them in that order.
C6_SkipThenCap ==
    (pc \notin {"start", "raised"} /\ max_sentences.given /\ max_sentences.v >= 1) =>
        /\ sentences =
            SubSeq(segmented, skip_sentences + 1,
                   Min(Len(segmented), skip_sentences + max_sentences.v))
        /\ \A k \in 1..Len(results) :
            /\ skip_sentences + k <= Len(segmented)
            /\ results[k].sentence = segmented[skip_sentences + k]
        /\ pc \in {"returned", "done"} => Len(results) = Len(sentences)

\* Skip 1 and limit 1 on three sentences: the run has returned the second
\* sentence alone.
C6_Witness ==
    /\ pc = "returned"
    /\ skip_sentences = 1
    /\ max_sentences = Some(1)
    /\ Len(segmented) = 3
    /\ Len(results) = 1
    /\ results[1].sentence = segmented[2]

\* The interpretation and truth calls made for a sentence.
ProbabilityCallsFor(sentence) ==
    {i \in 1..Len(calls) : calls[i].sentence = sentence /\ calls[i].op # "extract"}

\* The claim texts kept of min(k, m) of the k extracted for the j-th sentence.
KeptOf(j) == SubSeq(extracted[j], 1, Min(Len(extracted[j]), max_claims.v))

\* C7: with a limit m >= 1, the Claim records of a sentence whose extraction
\* returned k claims are the first min(k, m) of them, 2 * min(k, m) probability
\* calls are made for the sentence, and no interpretation or truth call is ever
\* made for a claim the truncation discarded.
C7_TruncationBoundsCalls ==
    (max_claims.given /\ max_claims.v >= 1) =>
        /\ \A j \in 1..Len(results) :
            /\ [c \in 1..Len(results[j].claims) |-> results[j].claims[c].text] = KeptOf(j)
            /\ Cardinality(ProbabilityCallsFor(results[j].sentence)) = 2 * Len(KeptOf(j))
        /\ \A i \in 1..Len(calls) :
            calls[i].op # "extract" =>
                \E j \in 1..Len(extracted) :
                    /\ sentences[j] = calls[i].sentence
                    /\ \E c \in 1..Len(KeptOf(j)) : calls[i].claim = KeptOf(j)[c]

\* Limit 1 and a sentence of two extracted claims: the sentence is finished
\* with the first of them, on two probability calls.
C7_Witness ==
    /\ max_claims = Some(1)
    /\ \E j \in 1..Len(results) :
        /\ Len(extracted[j]) = 2
        /\ Len(results[j].claims) = 1
        /\ results[j].claims[1].text = extracted[j][1]
        /\ Cardinality(ProbabilityCallsFor(results[j].sentence)) = 2

DecodesAsObject(response_text) ==
    LET cleaned_text == CleanText(response_text)
        loaded == JsonLoads(JsonText(cleaned_text, SearchObject(cleaned_text)))
    IN  loaded.ok /\ loaded.v.t = "obj"

\* C9: of a response that cannot be decoded as a structured object and holds
\* a probability-like token, _parse_probability_response returns the first
\* such token of the raw text, clamped to [0, 1], with an explanation marked
\* as a fallback parse.
C9_FallbackOnUndecodable ==
    (/\ parser_output # NotCalled
     /\ ~DecodesAsObject(parser_input)
     /\ FindNumbers(parser_input) # <<>>) =>
        parser_output =
            Returns(Clamp(FloatOfStr(FindNumbers(parser_input)[1]).n),
                    <<"Fallback parse: ">> \o parser_input)

\* C10: of a response with no numeric token at all,
\* _parse_probability_response returns 0.5 with an explanation that carries
\* the parse-failed marker.
C10_NeutralOnNoNumber ==
    (/\ parser_output # NotCalled
     /\ \A k \in 1..Len(parser_input) : parser_input[k] \notin Digits) =>
        parser_output = Returns(One \div 2, <<"Parse failed: ">> \o parser_input)

\* C11: on every path of the parser that returns (the embedded object, the
\* whole text, the numeric fallback, the total failure) the probability lies in
\* [0, 1]; so does the probability a calculate_*_probability call returns for
\* every oracle outcome, a failure included, and so do the two probabilities of
\* every Claim record.
C11_ProbabilitiesInUnitInterval ==
    /\ parser_output.kind = "return" => parser_output.prob \in 0..One
    /\ calculated.called => calculated.prob \in 0..One
    /\ \A record \in ClaimRecords :
        /\ record.probability_interpreted \in 0..One
        /\ record.probability_true \in 0..One

\* The response {"probability": 1.7}, decoded as a whole, has been parsed and
\* evaluated: 1.7 comes back as 1.
C11_Witness ==
    /\ parser_input = ProbabilityOnly(<<"1", DOT, "7">>)
    /\ parser_output = Returns(One, <<"No explanation provided">>)
    /\ calculated.called
    /\ ~calculated.raised
    /\ calculated.prob = One

\* C12: for every response text, JSON that is no object and objects with a
\* null or non-numeric probability included, _parse_probability_response
\* returns a pair and raises nothing past its own boundary.
C12_ParserNeverRaises ==
    parser_output # NotCalled => parser_output.kind = "return"

\* The Claim records made so far for a sentence: those of its SentenceAnalysis,
\* or those of the sentence at hand.
RecordsFor(sentence) ==
    UNION {{results[j].claims[c] : c \in 1..Len(results[j].claims)} :
                j \in {k \in 1..Len(results) : results[k].sentence = sentence}}
        \cup (IF Len(results) < Len(sentences) /\ sentences[Len(results) + 1] = sentence
              THEN {claims[c] : c \in 1..Len(claims)} ELSE {})

ErrorRecorded(prob, explanation) ==
    prob = One \div 2 /\ explanation # <<>> /\ explanation[1] = "Error: "

\* C13: a failed interpretation or truth call leaves probability 0.5 and an
\* explanation with the error text in its field, and the Claim record is made
\* all the same: every sentence has as many Claim records as claim texts kept
\* by the truncation, whatever the probability calls ended with.
C13_FailedCallsStillMakeRecords ==
    /\ \A i \in 1..Len(calls) :
        /\ calls[i].op = "truth" =>
            \E record \in RecordsFor(calls[i].sentence) : record.text = calls[i].claim
        /\ (calls[i].op # "extract" /\ calls[i].failed) =>
            \A record \in RecordsFor(calls[i].sentence) :
                record.text = calls[i].claim =>
                    IF calls[i].op = "interpretation"
                    THEN ErrorRecorded(record.probability_interpreted,
                                       record.interpretation_explanation)
                    ELSE ErrorRecorded(record.probability_true, record.truth_explanation)
    /\ (pc = "truth" /\ calls[Len(calls)].failed) =>
            ErrorRecorded(interpreted.prob, interpreted.explanation)
    /\ \A j \in 1..Len(results) :
        /\ ~max_claims.given => Len(results[j].claims) = Len(extracted[j])
        /\ (max_claims.given /\ max_claims.v >= 1) =>
            Len(results[j].claims) = Min(Len(extracted[j]), max_claims.v)

\* A finished sentence of two claims: the interpretation call of the first
\* failed and the truth call of the second failed, the other two answered.
C13_Witness ==
    \E j \in 1..Len(results), i, k \in 1..Len(calls) :
        /\ Len(results[j].claims) = 2
        /\ calls[i].sentence = results[j].sentence
        /\ calls[i].op = "interpretation" /\ calls[i].failed /\ calls[i].claim = 1
        /\ calls[k].sentence = results[j].sentence
        /\ calls[k].op = "truth" /\ calls[k].failed /\ calls[k].claim = 2
        /\ results[j].claims[1].probability_interpreted = 5
        /\ results[j].claims[1].probability_true = 2
        /\ results[j].claims[2].probability_interpreted = 2
        /\ results[j].claims[2].probability_true = 5

\* C14: a sentence whose extraction call failed, or answered what does not
\* decode, is in the result at its position with no claims and 0 microlies,
\* no probability call is made for it, and the analysis goes on with the next
\* sentence.
C14_FailedExtractionIsEmptySentence ==
    \A i \in 1..Len(calls) :
        (calls[i].op = "extract" /\ calls[i].failed) =>
            /\ ProbabilityCallsFor(calls[i].sentence) = {}
            /\ i = Len(calls) => pc \notin {"aborted", "raised"}
            /\ \A j \in 1..Len(results) :
                sentences[j] = calls[i].sentence =>
                    /\ results[j].sentence = calls[i].sentence
                    /\ results[j].claims = <<>>
                    /\ results[j].sentence_microlies = 0
            /\ i < Len(calls) =>
                /\ calls[i + 1].op = "extract"
                /\ \E j \in 1..(Len(sentences) - 1) :
                    sentences[j] = calls[i].sentence /\ sentences[j + 1] = calls[i + 1].sentence

\* The run has returned two sentences: the extraction of the first failed, the
\* second has a claim.
C14_Witness ==
    /\ pc = "returned"
    /\ Len(results) = 2
    /\ calls[1].op = "extract" /\ calls[1].failed
    /\ results[1].claims = <<>>
    /\ results[1].sentence_microlies = 0
    /\ Len(results[2].claims) = 1

\* C15: with the text obtained and integer limits, no oracle response aborts
\* the analysis, a well-formed extraction response that is no list of strings
\* included.
C15_NoResponseAborts ==
    (max_sentences.given /\ max_claims.given) => pc # "aborted"

\* C16: when fetching the source fails, analyze_article raises, with no
\* partial result, no segmentation and no oracle call, before or after.
C16_FetchFailureIsFatal ==
    pc = "raised" =>
        /\ results = <<>>
        /\ report = NoReport
        /\ article_text = <<>>
        /\ segmented = <<>>
        /\ sentences = <<>>
        /\ extracted = <<>>
        /\ calls = <<>>
        /\ ~ENABLED (Prepare \/ ExtractClaims \/ InterpretationCall \/ TruthCall)
        /\ ~ENABLED (MainReports \/ AnalyzePostRenders \/ AnalyzeGetRenders \/ ApiResponds)

\* The fetch of a run with a skip and both limits has failed.
C16_Witness ==
    /\ pc = "raised"
    /\ skip_sentences = 1
    /\ max_sentences = Some(2)
    /\ max_claims = Some(1)
    /\ calls = <<>>

\* C20: the context given to every interpretation call and to every truth call
\* is the whole obtained text, the skipped sentences, the sentences past the
\* limit and the fragments that are no sentence included, and not the
\* sentences kept for the analysis.
C20_ContextIsWholeText ==
    \A i \in 1..Len(calls) :
        calls[i].op # "extract" =>
            /\ calls[i].context = article_text
            /\ \A s \in 1..Len(segmented) :
                \E k \in 1..Len(calls[i].context) : calls[i].context[k].text = segmented[s]
            /\ \E k \in 1..Len(calls[i].context) : ~Fragment(calls[i].context[k])

\* A truth call on the one sentence that a skip of 1 and a limit of 1 keep of
\* three: its context holds the three of them and the short fragment.
C20_Witness ==
    /\ skip_sentences = 1
    /\ max_sentences = Some(1)
    /\ Len(segmented) = 3
    /\ sentences = <<2>>
    /\ calls # <<>>
    /\ calls[Len(calls)].op = "truth"
    /\ Len(calls[Len(calls)].context) = 4

\* A parameter of a request that is no number: in a form or a query string, a
\* string that is not empty and that int() rejects; in a JSON body, any string
\* that int() rejects.
NonNumeric(x) ==
    /\ x.t = "str"
    /\ ~PyInt(x.s).ok
    /\ request.route \in {"post", "get"} => x.s # <<>>

NonNumericRequest ==
    \/ NonNumeric(request.max_sentences)
    \/ NonNumeric(request.max_claims)
    \/ NonNumeric(request.skip_sentences)

\* C17: a request to a form route or to the JSON API whose max_sentences,
\* max_claims or skip_sentences is no number is rejected: no oracle call is
\* ever made for it, and no result is returned or rendered for it.
C17_NonNumericIsRejected ==
    NonNumericRequest => (calls = <<>> /\ pc \notin {"returned", "done"})

\* C18: whatever max_sentences and max_claims a request to one of the three
\* routes carries, the analysis started for it goes over at most 50 sentences
\* and evaluates at most 10 claims in any sentence.
C18_LimitsAreClamped ==
    request # NoRequest =>
        /\ Len(sentences) <= MaxSentencesCap
        /\ Len(claim_texts) <= MaxClaimsCap
        /\ \A j \in 1..Len(results) : Len(results[j].claims) <= MaxClaimsCap

\* C19: a request that carries the article text itself is analysed: it ends
\* neither with a failure of the analysis nor with a failed fetch.
C19_TextIsAnalysed ==
    (request.route = "post" /\ request.input_method = "text" /\ request.source) =>
        pc \notin {"failed", "raised"}

\* C21: the i-th SentenceAnalysis holds the i-th sentence left by the skip and
\* the limit, which are consecutive sentences of the segmentation in its order,
\* and the j-th Claim record of a sentence holds the j-th claim text of the
\* extraction list: nothing is reordered, duplicated or omitted.
C21_OrderIsKept ==
    /\ \A j \in 1..Len(sentences) : sentences[j] = segmented[skip_sentences + j]
    /\ Len(results) <= Len(sentences)
    /\ pc \in {"returned", "done"} => Len(results) = Len(sentences)
    /\ \A j \in 1..Len(results) :
        /\ results[j].sentence = sentences[j]
        /\ Len(results[j].claims) <= Len(extracted[j])
        /\ \A c \in 1..Len(results[j].claims) : results[j].claims[c].text = extracted[j][c]
        /\ ~max_claims.given => Len(results[j].claims) = Len(extracted[j])
        /\ (max_claims.given /\ max_claims.v >= 1) =>
            Len(results[j].claims) = Min(Len(extracted[j]), max_claims.v)
    /\ \A c \in 1..Len(claims) : claims[c].text = claim_texts[c]

\* A run with a skip of 1 has returned the second and third of three sentences;
\* two claims were extracted for the second, and a limit of 1 kept the first.
C21_Witness ==
    /\ pc = "returned"
    /\ skip_sentences = 1
    /\ max_claims = Some(1)
    /\ Len(segmented) = 3
    /\ Len(results) = 2
    /\ results[1].sentence = 2
    /\ results[2].sentence = 3
    /\ Len(extracted[1]) = 2
    /\ Len(results[1].claims) = 1
    /\ results[1].claims[1].text = 1

\* The runs of whitespace of a text that follow . ! or ? and precede A-Z.
Endings(t) ==
    {i \in 2..(Len(t) - 1) : t[i].space /\ t[i - 1].stop /\ t[i + 1].upper}

\* The words of the piece that starts at token a: those from a up to the next
\* ending, or to the end of the text.
WordsFrom(t, a) ==
    {i \in a..Len(t) : ~t[i].space /\ \A e \in Endings(t) : e < a \/ i < e}

\* The piece that starts at a without the whitespace around it: from its first
\* word to its last.
TrimmedFrom(t, a) ==
    IF WordsFrom(t, a) = {} THEN <<>>
    ELSE SubSeq(t, CHOOSE i \in WordsFrom(t, a) : \A k \in WordsFrom(t, a) : i <= k,
                   CHOOSE i \in WordsFrom(t, a) : \A k \in WordsFrom(t, a) : i >= k)

CharsOf(s) == Sum([k \in 1..Len(s) |-> s[k].chars])

\* Where the pieces start whose trimmed length is greater than 10.
KeptStarts(t) ==
    {a \in {1} \cup {e + 1 : e \in Endings(t)} : CharsOf(TrimmedFrom(t, a)) > 10}

\* C22: split_into_sentences splits only at whitespace that follows . ! or ?
\* and precedes an uppercase letter, and returns in the order of the text
\* exactly the trimmed pieces longer than 10 characters: nothing for the empty
\* text, the whole trimmed text (if longer than 10) where no word ends a
\* sentence, and two sentences for "Sales rose. The CEO announced new plans. OK."
C22_SplitAtSentenceEndings ==
    split_output.done =>
        /\ Len(split_output.sentences) = Cardinality(KeptStarts(split_input))
        /\ \A a \in KeptStarts(split_input) :
            split_output.sentences[Cardinality({b \in KeptStarts(split_input) : b <= a})]
                = TrimmedFrom(split_input, a)
        /\ split_input = <<>> => split_output.sentences = <<>>
        /\ (\A i \in 1..Len(split_input) : ~split_input[i].stop) =>
            split_output.sentences =
                IF CharsOf(TrimmedFrom(split_input, 1)) > 10
                THEN <<TrimmedFrom(split_input, 1)>> ELSE <<>>
        /\ split_input = SalesRose =>
            split_output.sentences = <<SubSeq(SalesRose, 1, 3), SubSeq(SalesRose, 5, 13)>>

\* The example text has been split into its two sentences.
C22_Witness ==
    /\ split_input = SalesRose
    /\ split_output.done
    /\ Len(split_output.sentences) = 2

\* What stands before and after an object embedded in a response: prose, with
\* a number after it or before it.
Around ==
    { <<<<"w", SP>>, <<SP, "0", DOT, "9">>>>,
      <<<<"0", DOT, "9", SP>>, <<SP, "w">>>> }

\* C25: for a response that holds, with prose or numbers around it, a
\* well-formed object with an explanation key and a probability key in either
\* order, _parse_probability_response returns the probability and the
\* explanation of that object.
C25_EmbeddedObjectIsFound ==
    parser_output # NotCalled =>
        \A e \in Explanations, p \in Probabilities, a \in Around :
            parser_input \in {a[1] \o Payload(e, p) \o a[2],
                              a[1] \o PayloadProbabilityFirst(e, p) \o a[2]}
                => parser_output = Returns(p, e)

\* How many of the first i oracle calls are extraction calls.
ExtractionsUpTo(i) == Cardinality({k \in 1..i : calls[k].op = "extract"})

\* C23: the oracle calls of a run are made one after the other: for each kept
\* sentence in order one extraction call, then for each kept claim in order
\* an interpretation call and, right after it, the truth call of the same
\* claim; the calls of a sentence are all made before the extraction call of
\* the next.
C23_CallsAreSequential ==
    /\ ExtractionsUpTo(Len(calls)) <= Len(sentences)
    /\ \A i \in 1..Len(calls) :
        /\ calls[i].sentence = sentences[ExtractionsUpTo(i)]
        /\ calls[i].op = "extract" =>
            /\ i > 1 =>
                /\ calls[i - 1].op # "interpretation"
                /\ Len(results) >= ExtractionsUpTo(i - 1)
                /\ IF calls[i - 1].op = "extract"
                   THEN results[ExtractionsUpTo(i - 1)].claims = <<>>
                   ELSE calls[i - 1].claim =
                            results[ExtractionsUpTo(i - 1)].claims[
                                Len(results[ExtractionsUpTo(i - 1)].claims)].text
        /\ calls[i].op = "interpretation" =>
            /\ i > 1
            /\ calls[i - 1].op # "interpretation"
            /\ calls[i - 1].op = "extract" =>
                calls[i].claim = extracted[ExtractionsUpTo(i)][1]
            /\ calls[i - 1].op = "truth" =>
                \E c \in 1..(Len(extracted[ExtractionsUpTo(i)]) - 1) :
                    /\ extracted[ExtractionsUpTo(i)][c] = calls[i - 1].claim
                    /\ extracted[ExtractionsUpTo(i)][c + 1] = calls[i].claim
        /\ calls[i].op = "truth" =>
            /\ i > 1
            /\ calls[i - 1].op = "interpretation"
            /\ calls[i - 1].claim = calls[i].claim
    /\ pc \in {"returned", "done"} =>
        /\ ExtractionsUpTo(Len(calls)) = Len(sentences)
        /\ calls # <<>> => calls[Len(calls)].op # "interpretation"

\* A returned run of two sentences: the extraction of the first, the two pairs
\* of probability calls of its two claims, then the extraction of the second.
C23_Witness ==
    /\ pc = "returned"
    /\ [i \in 1..Len(calls) |-> calls[i].op] =
        <<"extract", "interpretation", "truth", "interpretation", "truth", "extract">>
    /\ [i \in 1..Len(calls) |-> calls[i].sentence] = <<1, 1, 1, 1, 1, 2>>
    /\ [i \in 1..Len(calls) |-> calls[i].claim] = <<0, 1, 1, 2, 2, 0>>

\* C24: a limit given as an integer L >= 0 is an upper bound: with
\* max_sentences = L the result holds at most L sentences, and with
\* max_claims = L every sentence holds at most L Claim records and at most 2 * L
\* probability calls are made for it.
C24_LimitIsUpperBound ==
    /\ max_sentences.given =>
        /\ Len(sentences) <= max_sentences.v
        /\ Len(results) <= max_sentences.v
    /\ max_claims.given =>
        /\ Len(claims) <= max_claims.v
        /\ \A j \in 1..Len(results) :
            /\ Len(results[j].claims) <= max_claims.v
            /\ Cardinality(ProbabilityCallsFor(results[j].sentence)) <= 2 * max_claims.v

\* The extraction calls made for a sentence.
ExtractionCallsFor(sentence) ==
    {i \in 1..Len(calls) : calls[i].op = "extract" /\ calls[i].sentence = sentence}

\* On the way and in a run that returns: at most one extraction call for a
\* sentence, none for a sentence that the skip or the limit removed, one for
\* each sentence of the result, and as many oracle calls as the result has
\* sentences plus twice as many as it has Claim records; with a skip of at
\* least the number of segmented sentences, no result and no call.
ReturnedRunsAreCounted ==
    /\ \A k \in 1..Len(segmented) :
        /\ Cardinality(ExtractionCallsFor(segmented[k])) <= 1
        /\ (k <= skip_sentences \/ \A j \in 1..Len(sentences) : sentences[j] # segmented[k]) =>
            \A i \in 1..Len(calls) : calls[i].sentence # segmented[k]
    /\ \A j \in 1..Len(results) : Cardinality(ExtractionCallsFor(results[j].sentence)) = 1
    /\ pc \in {"returned", "done"} =>
        Len(calls) = Len(results) + 2 * Sum([j \in 1..Len(results) |-> Len(results[j].claims)])
    /\ (pc \notin {"start", "raised"} /\ skip_sentences >= Len(segmented)) =>
        results = <<>> /\ calls = <<>>

\* C27: in every run that has ended, by returning or by an exception out of
\* the loop, one extraction call was made for each retained sentence and none
\* for a sentence that the skip or the limit removed, and the run made as many
\* oracle calls as its result has sentences plus twice as many as it has
\* Claim records; with a skip of at least the number of segmented sentences
\* the result is empty and no oracle call is made.
C27_CallsAreCounted ==
    /\ ReturnedRunsAreCounted
    /\ pc \in {"returned", "done", "aborted"} =>
        \A j \in 1..Len(sentences) : Cardinality(ExtractionCallsFor(sentences[j])) = 1

\* The oracle call that a step makes fails and is of this kind.
FailingCall(op) ==
    /\ Len(calls') = Len(calls) + 1
    /\ calls'[Len(calls')].op = op
    /\ calls'[Len(calls')].failed

\* C26: records are written once. Every step keeps the SentenceAnalysis
\* records of the result as they are, and keeps the Claim records of the
\* sentence at hand as they are until they go, unchanged, into that sentence's
\* SentenceAnalysis; once analyze_article has returned or raised, save_results
\* and the routes change neither. A step whose probability call fails writes
\* the probability and the explanation of that call's field of the claim at
\* hand and no other record or field: a failed interpretation call leaves
\* every record alone, and the Claim record made at a failed truth call has
\* the text and the interpretation probability and explanation that were
\* there before the call.
C26_RecordsAreWrittenOnce ==
    [][/\ Len(results') >= Len(results)
       /\ SubSeq(results', 1, Len(results)) = results
       /\ \/ /\ Len(claims') >= Len(claims)
             /\ SubSeq(claims', 1, Len(claims)) = claims
          \/ /\ claims' = <<>>
             /\ results' = Append(results, results'[Len(results')])
             /\ results'[Len(results')].claims = claims
       /\ pc \in {"returned", "done", "aborted", "raised"} =>
             UNCHANGED <<results, claims>>
       /\ FailingCall("extract") =>
             /\ UNCHANGED <<results, claims>>
             /\ claim_texts' = <<>>
       /\ FailingCall("interpretation") =>
             /\ UNCHANGED <<results, claims, claim_texts, sentences>>
             /\ ErrorRecorded(interpreted'.prob, interpreted'.explanation)
       /\ FailingCall("truth") =>
             /\ UNCHANGED <<results, claim_texts, sentences>>
             /\ Len(claims') = Len(claims) + 1
             /\ LET record == claims'[Len(claims')]
                IN  /\ record.text = claim_texts[Len(claims) + 1]
                    /\ record.probability_interpreted = interpreted.prob
                    /\ record.interpretation_explanation = interpreted.explanation
                    /\ ErrorRecorded(record.probability_true, record.truth_explanation)
      ]_vars

\* A reported run of two sentences with a claim each: the truth call of the
\* first claim failed after its interpretation call had answered, and the
\* record made then is still in the result after the second sentence and the
\* report.
C26_Witness ==
    /\ pc = "done"
    /\ Len(results) = 2
    /\ Len(results[1].claims) = 1
    /\ Len(results[2].claims) = 1
    /\ ~calls[2].failed
    /\ calls[3].op = "truth" /\ calls[3].failed
    /\ ErrorRecorded(results[1].claims[1].probability_true,
                     results[1].claims[1].truth_explanation)
    /\ ~ErrorRecorded(results[1].claims[1].probability_interpreted,
                      results[1].claims[1].interpretation_explanation)

====
